---- MODULE Spec2Model ----
(***************************************************************************)
(* State-machine model of the suspicion scanner (src/scanner.py) and of    *)
(* the HTTP wrapper's scan operation (src/api/main.py).                    *)
(*                                                                         *)
(* Conventions                                                             *)
(*   - Python's None / Optional[x] is the empty tuple None, a present      *)
(*     value v is the one-element tuple Some(v).                           *)
(*   - Python strings that the code inspects (strip, lower, substring,     *)
(*     regex) are sequences of one-character strings.                      *)
(*   - Floats that are ratios of counts are kept as exact fractions        *)
(*     [n, d]; float thresholds are fractions too.                         *)
(*   - Elo deviations are counted in units of 1/EloUnit.                   *)
(***************************************************************************)
EXTENDS Integers, Sequences, FiniteSets, TLC

None == <<>>
Some(v) == <<v>>
IsNone(o) == o = <<>>
Val(o) == o[1]

(* ------------------------------ bounds -------------------------------- *)

\* Longest archive index (list of month URLs) the remote returns.
MaxArchives == 2

(* --------------------------- string helpers --------------------------- *)

\* str.lower() on one character of the alphabet in use.
LowerChar(c) ==
  IF c = "A" THEN "a"
  ELSE IF c = "B" THEN "b"
  ELSE IF c = "R" THEN "r"
  ELSE IF c = "T" THEN "t"
  ELSE c

\* str.lower()
Lower(s) == [i \in 1..Len(s) |-> LowerChar(s[i])]

\* Python's whitespace test used by str.strip()
IsSpace(c) == c \in {" ", "\t", "\n"}

RECURSIVE LStrip(_)
LStrip(s) == IF s # <<>> /\ IsSpace(Head(s)) THEN LStrip(Tail(s)) ELSE s

RECURSIVE RStrip(_)
RStrip(s) ==
  IF s # <<>> /\ IsSpace(s[Len(s)]) THEN RStrip(SubSeq(s, 1, Len(s) - 1)) ELSE s

\* the string as it is, not stripped
NotStripped(s) == s

\* str.strip()
Strip(s) == RStrip(LStrip(s))

\* needle in s  (substring test)
Contains(s, needle) ==
  \E i \in 1..(Len(s) - Len(needle) + 1) :
     SubSeq(s, i, i + Len(needle) - 1) = needle

RECURSIVE SumSeq(_)
SumSeq(s) == IF s = <<>> THEN 0 ELSE Head(s) + SumSeq(Tail(s))

\* min where the code takes max
MinForMax(a, b) == IF a <= b THEN a ELSE b

Max(a, b) == IF a >= b THEN a ELSE b

(* ------------------------------ PGN text ------------------------------ *)

\* A PGN blob is [tags: sequence of <<key, value>> tag pairs in text order,
\*                blank: whether a blank line ("\n\n") occurs,
\*                body: the tokens of the move text after the first blank line].
K_Result == <<"R", "e", "s", "u", "l", "t">>
K_Termination == <<"T", "e", "r", "m", "i", "n", "a", "t", "i", "o", "n">>

R_WhiteWins == <<"1", "-", "0">>
R_BlackWins == <<"0", "-", "1">>
R_Draw == <<"1", "/", "2", "-", "1", "/", "2">>
R_Star == <<"*">>

\* re.search(rf'\[{key}\s+"([^"]+)"\]', pgn): the value of the first tag pair
\* with that key whose value is non-empty, else None.
RECURSIVE _parse_pgn_value(_, _)
_parse_pgn_value(tags, key) ==
  IF tags = <<>> THEN None
  ELSE IF Head(tags)[1] = key /\ Head(tags)[2] # <<>> THEN Some(Head(tags)[2])
  ELSE _parse_pgn_value(Tail(tags), key)

\* Matches of \b\d+\. in one token of move text.
MarkerMatches(tok) == IF tok \in {"1.", "2.", "3.", "1...", "2..."} THEN 1 ELSE 0

\* _parse_plies_from_pgn
_parse_plies_from_pgn(pgn) ==
  IF ~pgn.blank THEN None
  ELSE LET fullmoves == SumSeq([i \in 1..Len(pgn.body) |-> MarkerMatches(pgn.body[i])])
       IN  IF fullmoves > 0 THEN Some(2 * fullmoves) ELSE None

(* --------------------------- game extraction -------------------------- *)

\* Python truthiness of an Optional[int]: None and 0 are falsy.
Truthy(o) == ~IsNone(o) /\ Val(o) # 0

\* One raw game record of a month listing is
\*   [time_class, rated, pgn, white: [username, rating], black: [username, rating],
\*    end_time, tournament (whether the "tournament" key is present)].
\* GameSummary built by the body of the loop over data["games"].
Summarize(g, username) ==
  LET end_reason == LET t == _parse_pgn_value(g.pgn.tags, K_Termination)
                    IN  Lower(IF IsNone(t) THEN <<>> ELSE Val(t))
      result     == LET r == _parse_pgn_value(g.pgn.tags, K_Result)
                    IN  IF IsNone(r) THEN <<>> ELSE Val(r)
      is_white   == Lower(g.white.username) = Lower(username)
      me         == IF is_white THEN g.white ELSE g.black
      opp        == IF is_white THEN g.black ELSE g.white
  IN  [ result         |-> result,
        is_win         |-> (result = R_WhiteWins /\ is_white) \/ (result = R_BlackWins /\ ~is_white),
        is_loss        |-> (result = R_BlackWins /\ is_white) \/ (result = R_WhiteWins /\ ~is_white),
        is_draw        |-> result = R_Draw,
        my_rating      |-> me.rating,
        opp_rating     |-> opp.rating,
        plies          |-> _parse_plies_from_pgn(g.pgn),
        end_reason     |-> end_reason,
        is_rated       |-> g.rated,
        from_tournament |-> g.tournament,
        end_time       |-> g.end_time ]

\* The inner loop of _fetch_daily_games over one month listing: non-daily
\* records are skipped, the others appended in order.
RECURSIVE SummarizeAll(_, _)
SummarizeAll(listing, username) ==
  IF listing = <<>> THEN <<>>
  ELSE IF Head(listing).time_class # "daily" THEN SummarizeAll(Tail(listing), username)
  ELSE <<Summarize(Head(listing), username)>> \o SummarizeAll(Tail(listing), username)

(* ------------------------------ streaks ------------------------------- *)

MinOf(S) == CHOOSE x \in S : \A y \in S : x <= y

\* list.sort(key=end_time): a stable ascending sort; games with equal end
\* times keep their list order.
RECURSIVE SortedFrom(_, _)
SortedFrom(gs, times) ==
  IF times = {} THEN <<>>
  ELSE LET t == MinOf(times)
           HasT(g) == Val(g.end_time) = t
       IN  SelectSeq(gs, HasT) \o SortedFrom(gs, times \ {t})

SortedByEndTime(gs) == SortedFrom(gs, {Val(gs[i].end_time) : i \in 1..Len(gs)})

\* a walk that does not reset the counter on a non-win
RECURSIVE StreakWalkNoReset(_, _, _)
StreakWalkNoReset(gs, cur, mx) ==
  IF gs = <<>> THEN <<cur, mx>>
  ELSE IF Head(gs).is_win
  THEN StreakWalkNoReset(Tail(gs), cur + 1, IF mx >= cur + 1 THEN mx ELSE cur + 1)
  ELSE StreakWalkNoReset(Tail(gs), cur, mx)

\* The walk of _rolling_win_streak over the sorted games: <<cur, mx>>.
RECURSIVE StreakWalk(_, _, _)
StreakWalk(gs, cur, mx) ==
  IF gs = <<>> THEN <<cur, mx>>
  ELSE IF Head(gs).is_win THEN StreakWalk(Tail(gs), cur + 1, Max(mx, cur + 1))
  ELSE StreakWalk(Tail(gs), 0, mx)

_rolling_win_streak(games) ==
  LET HasTime(g) == Truthy(g.end_time)
      gs == SortedByEndTime(SelectSeq(games, HasTime))
  IN  StreakWalk(gs, 0, 0)

(* ---------------------------- scanner config --------------------------- *)

\* A fraction n/d (d > 0) stands for a float that is a ratio of counts or a
\* float threshold.
Frac(n, d) == [n |-> n, d |-> d]
FracGE(a, b) == a.n * b.d >= b.n * a.d
FracSub(a, b) == [n |-> a.n * b.d - b.n * a.d, d |-> a.d * b.d]

\* SusScanner.__init__ with its default arguments.
DefaultScanner ==
  [ lookback_months        |-> 2,
    rating_upset_margin    |-> 250,
    short_game_plies       |-> 40,
    short_win_rate_th      |-> Frac(70, 100),
    streak_suspect         |-> 8,
    tourn_min_games        |-> 15,
    non_tourn_min_games    |-> 15,
    min_games_for_elo      |-> 20,
    high_elo_ratio         |-> Frac(2, 1),
    elo_ratio_gap_suspect  |-> Frac(1, 1),
    min_nt_losses_for_flag |-> 6,
    high_bail_loss_ratio   |-> Frac(60, 100),
    gap_vs_tournament      |-> Frac(20, 100) ]

\* The scanner the module-level analyze_user builds: defaults, with
\* lookback_months = int(os.getenv("LOOKBACK_MONTHS", "3")).
ModuleScanner == [DefaultScanner EXCEPT !.lookback_months = 3]

\* A scanner constructed with small sample-size thresholds (keyword arguments
\* of __init__), so that the sample-size gates open on short histories.
SmallScanner ==
  [DefaultScanner EXCEPT !.short_game_plies = 2,
                         !.streak_suspect = 3,
                         !.tourn_min_games = 1,
                         !.non_tourn_min_games = 1,
                         !.min_games_for_elo = 3,
                         !.min_nt_losses_for_flag = 3]

(* ------------------------------ metrics ------------------------------- *)

\* _ratio(n, d)
_ratio(n, d) == IF d > 0 THEN Frac(n, d) ELSE Frac(0, 1)

\* _is_bail(reason)
S_resign == <<"r", "e", "s", "i", "g", "n">>
S_timeout == <<"t", "i", "m", "e", "o", "u", "t">>
S_abandon == <<"a", "b", "a", "n", "d", "o", "n">>

_is_bail(reason) ==
  LET r == Lower(reason)
  IN  Contains(r, S_resign) \/ Contains(r, S_timeout) \/ Contains(r, S_abandon)

IsRated(g) == g.is_rated
IsWin(g) == g.is_win
IsDraw(g) == g.is_draw
IsLoss(g) == g.is_loss
FromTournament(g) == g.from_tournament
\* a non-tournament test that every game passes
AnyOrigin(g) == TRUE
NotFromTournament(g) == ~g.from_tournament
BailFinish(g) == _is_bail(g.end_reason)

\* The condition under which the loop over rated games counts an upset win.
IsUpsetWin(g, margin) ==
  /\ g.is_win /\ Truthy(g.my_rating) /\ Truthy(g.opp_rating)
  /\ Val(g.opp_rating) - Val(g.my_rating) >= margin
  /\ ~_is_bail(g.end_reason)

\* (g.plies or 10**9) <= short_game_plies
IsShort(g, short_game_plies) ==
  (IF Truthy(g.plies) THEN Val(g.plies) ELSE 1000000000) <= short_game_plies

(* --------------------------- Elo accounting --------------------------- *)

\* Elo deviations are exact multiples of 1/EloUnit for the rating
\* differences 0 and +-400.
EloUnit == 2 * 11

\* 1 / eps, eps = 1e-9
EpsInv == 1000000000

\* expected_score(my, opp) in units of 1/EloUnit:
\* 1 / (1 + 10 ** ((opp - my) / 400)) is 1/2, 1/11, 10/11 for the rating
\* differences 0, 400, -400.
expected_score(my, opp) ==
  IF IsNone(my) \/ IsNone(opp) THEN None
  ELSE LET diff == Val(opp) - Val(my)
       IN  Some(CASE diff = 0 -> 11
                  [] diff = 400 -> 2
                  [] diff = 0 - 400 -> 20)

\* actual_score(g) in units of 1/EloUnit
actual_score(g) == IF g.is_win THEN EloUnit ELSE IF g.is_draw THEN EloUnit \div 2 ELSE 0

\* accum_elo(glist): <<gain, loss>> in units of 1/EloUnit
RECURSIVE AccumFrom(_, _, _)
AccumFrom(glist, gain, loss) ==
  IF glist = <<>> THEN <<gain, loss>>
  ELSE LET g == Head(glist)
           e == expected_score(g.my_rating, g.opp_rating)
       IN  IF IsNone(e) THEN AccumFrom(Tail(glist), gain, loss)
           ELSE LET d == actual_score(g) - Val(e)
                IN  IF d >= 0 THEN AccumFrom(Tail(glist), gain + d, loss)
                    ELSE AccumFrom(Tail(glist), gain, loss - d)

accum_elo(glist) == AccumFrom(glist, 0, 0)

\* gain / (loss if loss > eps else eps): the value n / d * scale, where the
\* scale is 1/eps when eps replaces the denominator.
\* loss / EloUnit > eps  iff  loss > EloUnit * eps  iff  loss > floor(EloUnit / EpsInv).
EloRatio(gain, loss) ==
  IF loss > EloUnit \div EpsInv THEN [n |-> gain, d |-> loss, scale |-> 1]
  ELSE [n |-> gain, d |-> EloUnit, scale |-> EpsInv]

ZeroRatio == [n |-> 0, d |-> 1, scale |-> 1]

CeilDiv(x, s) == 0 - ((0 - x) \div s)

\* x * sx >= y * sy for scales sx, sy in {1, EpsInv}, without forming the
\* products.
ScaledGE(x, sx, y, sy) ==
  IF sx = sy THEN x >= y
  ELSE IF sx > sy THEN x >= CeilDiv(y, sx)
  ELSE x \div sy >= y

\* ratio >= threshold (threshold a fraction)
RatioGE(r, t) == ScaledGE(r.n * t.d, r.scale, t.n * r.d, 1)
\* ratio <= threshold
RatioLE(r, t) == ScaledGE(t.n * r.d, 1, r.n * t.d, r.scale)

\* (a - b) >= threshold for two Elo ratios a, b
RatioGapGE(a, b, t) ==
  IF a.scale = b.scale
  THEN ScaledGE((a.n * b.d - b.n * a.d) * t.d, a.scale, t.n * a.d * b.d, 1)
  ELSE IF a.scale > b.scale
  THEN ScaledGE(a.n * b.d * t.d, a.scale, t.n * a.d * b.d + b.n * a.d * t.d, 1)
  ELSE ScaledGE(a.n * b.d * t.d - t.n * a.d * b.d, 1, b.n * a.d * t.d, b.scale)

(* ------------------------------ scoring ------------------------------- *)

\* The reason texts, by their leading words.
Reason1 == "High EloRatio"
Reason2 == "Tourn EloRatio vs non-tourn"
Reason3 == "High non-tournament self-bail losses"
Reason4 == "Active win streak"
Reason5 == "upset wins"
Reason6 == "of wins <= short_game_plies plies"

\* The points of the six rules, in hundredths: 2.0, 2.2, 1.5, 1.0, 1.0, 0.7
RulePoints == <<200, 220, 150, 100, 100, 70>>

\* a bump that only the first triggered rule gets (an elif chain)
bumpFirstOnly(acc, cond, pts, reason) ==
  IF cond /\ acc.reasons = <<>>
  THEN [score |-> acc.score + pts, reasons |-> Append(acc.reasons, reason)]
  ELSE acc

\* bump(pts, reason), applied when the rule's condition holds; acc is
\* [score, reasons].
bump(acc, cond, pts, reason) ==
  IF cond THEN [score |-> acc.score + pts, reasons |-> Append(acc.reasons, reason)]
  ELSE acc

\* round(score, 2) of a score counted in hundredths
Round2(score) == score

\* UserMetrics(username=username)
NewMetrics(username) ==
  [ username |-> username,
    lifetime_games |-> 0, lifetime_wins |-> 0, lifetime_draws |-> 0, lifetime_losses |-> 0,
    recent_games |-> 0, recent_wins |-> 0, recent_draws |-> 0, recent_losses |-> 0,
    win_streak |-> 0, max_win_streak |-> 0,
    upset_wins |-> 0, short_win_rate |-> Frac(0, 1), timeout_win_ratio |-> Frac(0, 1),
    tourn_games |-> 0, tourn_wins |-> 0, tourn_draws |-> 0, tourn_losses |-> 0,
    non_tourn_games |-> 0, non_tourn_wins |-> 0, non_tourn_draws |-> 0, non_tourn_losses |-> 0,
    tourn_win_rate |-> Frac(0, 1), non_tourn_win_rate |-> Frac(0, 1), wr_gap |-> Frac(0, 1),
    elo_gain |-> 0, elo_loss |-> 0, elo_ratio |-> ZeroRatio,
    tourn_elo_gain |-> 0, tourn_elo_loss |-> 0, tourn_elo_ratio |-> ZeroRatio,
    non_tourn_elo_gain |-> 0, non_tourn_elo_loss |-> 0, non_tourn_elo_ratio |-> ZeroRatio,
    elo_ratio_gap |-> [a |-> ZeroRatio, b |-> ZeroRatio],
    t_self_bail_loss_ratio |-> Frac(0, 1), nt_self_bail_loss_ratio |-> Frac(0, 1),
    suspicion_score |-> 0, reasons |-> <<>> ]

\* rule 1 with > in place of >= on the ratio
Rule1HoldsStrict(self, lifetime_games, elo_ratio) ==
  lifetime_games >= self.min_games_for_elo /\ ~RatioLE(elo_ratio, self.high_elo_ratio)

\* Rule 1: the overall Elo-ratio rule
Rule1Holds(self, lifetime_games, elo_ratio) ==
  lifetime_games >= self.min_games_for_elo /\ RatioGE(elo_ratio, self.high_elo_ratio)

\* Rule 2: the tournament / non-tournament Elo-ratio-gap rule
Rule2Holds(self, tourn_games, non_tourn_games, t_ratio, nt_ratio) ==
  /\ tourn_games >= self.tourn_min_games
  /\ non_tourn_games >= self.non_tourn_min_games
  /\ RatioGapGE(t_ratio, nt_ratio, self.elo_ratio_gap_suspect)

\* a - b >= c on the doubles nearest to the fractions a, b and c. The
\* quotients n / d are correctly rounded, so the difference of the doubles
\* compares with c as the exact difference does unless the exact difference
\* equals c. For c = 0.2 and denominators up to 12 the doubles' difference
\* is 0.19999999999999996 at 0.3 - 0.1, 0.6 - 0.4, 0.7 - 0.5 and 1.0 - 0.8,
\* below the double 0.2, and is at least the double 0.2 at every other pair.
FracEq(a, b) == a.n * b.d = b.n * a.d
RoundsBelow(a, b, c) ==
  /\ FracEq(c, Frac(1, 5))
  /\ \E p \in {<<Frac(3, 10), Frac(1, 10)>>, <<Frac(3, 5), Frac(2, 5)>>,
               <<Frac(7, 10), Frac(1, 2)>>, <<Frac(1, 1), Frac(4, 5)>>} :
        FracEq(a, p[1]) /\ FracEq(b, p[2])

DoubleSubGE(a, b, c) == FracGE(FracSub(a, b), c) /\ ~RoundsBelow(a, b, c)

\* Rule 3: the sandbagging rule
Rule3Holds(self, n_nt_losses, n_t_losses, nt_bail, t_bail) ==
  /\ n_nt_losses >= self.min_nt_losses_for_flag
  /\ FracGE(nt_bail, self.high_bail_loss_ratio)
  /\ (DoubleSubGE(nt_bail, t_bail, self.gap_vs_tournament) \/ n_t_losses < 3)

\* Rule 4: the active-streak rule
Rule4Holds(self, win_streak) == win_streak >= self.streak_suspect

\* Rule 5: the upset-volume rule
Rule5Holds(upset_wins) == upset_wins >= 3

\* Rule 6: the short-game rule
Rule6Holds(self, short_win_rate, n_win_games) ==
  FracGE(short_win_rate, self.short_win_rate_th) /\ n_win_games >= 10

\* The body of analyze_user after the fetch, for a non-empty game list.
Analyze(self, username, games) ==
  LET rated      == SelectSeq(games, IsRated)
      streak     == _rolling_win_streak(games)
      Upset(g)   == IsUpsetWin(g, self.rating_upset_margin)
      win_games  == SelectSeq(rated, IsWin)
      Short(g)   == IsShort(g, self.short_game_plies)
      short_wins == SelectSeq(win_games, Short)
      timeoutish == SelectSeq(win_games, BailFinish)
      t_games    == SelectSeq(rated, FromTournament)
      nt_games   == SelectSeq(rated, NotFromTournament)
      tourn_wins == Len(SelectSeq(t_games, IsWin))
      tourn_draws == Len(SelectSeq(t_games, IsDraw))
      non_tourn_wins == Len(SelectSeq(nt_games, IsWin))
      non_tourn_draws == Len(SelectSeq(nt_games, IsDraw))
      twr        == _ratio(tourn_wins, Max(1, Len(t_games) - tourn_draws))
      ntwr       == _ratio(non_tourn_wins, Max(1, Len(nt_games) - non_tourn_draws))
      elo        == accum_elo(rated)
      t_elo      == accum_elo(t_games)
      nt_elo     == accum_elo(nt_games)
      elo_ratio  == EloRatio(elo[1], elo[2])
      t_ratio    == IF Len(t_games) # 0 THEN EloRatio(t_elo[1], t_elo[2]) ELSE ZeroRatio
      nt_ratio   == IF Len(nt_games) # 0 THEN EloRatio(nt_elo[1], nt_elo[2]) ELSE ZeroRatio
      t_losses   == SelectSeq(t_games, IsLoss)
      nt_losses  == SelectSeq(nt_games, IsLoss)
      t_bail     == _ratio(Len(SelectSeq(t_losses, BailFinish)), Max(1, Len(t_losses)))
      nt_bail    == _ratio(Len(SelectSeq(nt_losses, BailFinish)), Max(1, Len(nt_losses)))
      upset_wins == Len(SelectSeq(rated, Upset))
      swr        == _ratio(Len(short_wins), Max(1, Len(win_games)))
      s0 == [score |-> 0, reasons |-> <<>>]
      s1 == bump(s0, Rule1Holds(self, Len(rated), elo_ratio), RulePoints[1], Reason1)
      s2 == bump(s1, Rule2Holds(self, Len(t_games), Len(nt_games), t_ratio, nt_ratio),
                 RulePoints[2], Reason2)
      s3 == bump(s2, Rule3Holds(self, Len(nt_losses), Len(t_losses), nt_bail, t_bail),
                 RulePoints[3], Reason3)
      s4 == bump(s3, Rule4Holds(self, streak[1]), RulePoints[4], Reason4)
      s5 == bump(s4, Rule5Holds(upset_wins), RulePoints[5], Reason5)
      s6 == bump(s5, Rule6Holds(self, swr, Len(win_games)), RulePoints[6], Reason6)
  IN  [ username |-> username,
        lifetime_games |-> Len(rated),
        lifetime_wins |-> Len(SelectSeq(rated, IsWin)),
        lifetime_draws |-> Len(SelectSeq(rated, IsDraw)),
        lifetime_losses |-> Len(SelectSeq(rated, IsLoss)),
        recent_games |-> Len(rated),
        recent_wins |-> Len(SelectSeq(rated, IsWin)),
        recent_draws |-> Len(SelectSeq(rated, IsDraw)),
        recent_losses |-> Len(SelectSeq(rated, IsLoss)),
        win_streak |-> streak[1],
        max_win_streak |-> streak[2],
        upset_wins |-> upset_wins,
        short_win_rate |-> swr,
        timeout_win_ratio |-> _ratio(Len(timeoutish), Max(1, Len(win_games))),
        tourn_games |-> Len(t_games),
        tourn_wins |-> tourn_wins,
        tourn_draws |-> tourn_draws,
        tourn_losses |-> Len(SelectSeq(t_games, IsLoss)),
        non_tourn_games |-> Len(nt_games),
        non_tourn_wins |-> non_tourn_wins,
        non_tourn_draws |-> non_tourn_draws,
        non_tourn_losses |-> Len(SelectSeq(nt_games, IsLoss)),
        tourn_win_rate |-> twr,
        non_tourn_win_rate |-> ntwr,
        wr_gap |-> FracSub(twr, ntwr),
        elo_gain |-> elo[1], elo_loss |-> elo[2], elo_ratio |-> elo_ratio,
        tourn_elo_gain |-> t_elo[1], tourn_elo_loss |-> t_elo[2], tourn_elo_ratio |-> t_ratio,
        non_tourn_elo_gain |-> nt_elo[1], non_tourn_elo_loss |-> nt_elo[2],
        non_tourn_elo_ratio |-> nt_ratio,
        elo_ratio_gap |-> [a |-> t_ratio, b |-> nt_ratio],
        t_self_bail_loss_ratio |-> t_bail,
        nt_self_bail_loss_ratio |-> nt_bail,
        suspicion_score |-> Round2(s6.score),
        reasons |-> s6.reasons ]

\* analyze_user once _fetch_daily_games has returned `games`
MetricsOf(self, username, games) ==
  IF games = <<>> THEN NewMetrics(username) ELSE Analyze(self, username, games)

(* ------------------------- the remote platform ------------------------ *)

\* The subject of the analysis and an opponent, as the platform spells them.
Subject == <<"B", "o">>
Opponent == <<"x">>

T_Mate == <<"m", "a", "t", "e">>
T_Resign == <<"R", "e", "s", "i", "g", "n", "e", "d">>
T_Timeout == <<"t", "i", "m", "e", "o", "u", "t">>
T_Abandon == <<"A", "b", "a", "n", "d", "o", "n">>

Pgn(tags, blank, body) == [tags |-> tags, blank |-> blank, body |-> body]
NoPgn == Pgn(<<>>, FALSE, <<>>)
Tags(res, term) == << <<K_Result, res>>, <<K_Termination, term>> >>
ShortBody == <<"1.", "e4", "e5">>
LongBody == <<"1.", "e4", "e5", "2.", "Nf3", "1-0">>

\* A raw daily game record in which the subject (spelt `me`) plays white
\* (as_white) or black.
Game(me, as_white, my, opp, pgn, rated, tourn, end_time) ==
  [ time_class |-> "daily",
    rated      |-> rated,
    pgn        |-> pgn,
    white      |-> IF as_white THEN [username |-> me, rating |-> my]
                   ELSE [username |-> Opponent, rating |-> opp],
    black      |-> IF as_white THEN [username |-> Opponent, rating |-> opp]
                   ELSE [username |-> me, rating |-> my],
    end_time   |-> end_time,
    tournament |-> tourn ]

\* Rated tournament win as white against a 400-point stronger opponent, by mate.
G_WinT == Game(<<"b", "o">>, TRUE, Some(400), Some(800),
               Pgn(Tags(R_WhiteWins, T_Mate), TRUE, ShortBody), TRUE, TRUE, Some(2))
\* Rated non-tournament win as black on equal ratings, the opponent resigned.
G_WinNT == Game(Subject, FALSE, Some(400), Some(400),
                Pgn(Tags(R_BlackWins, T_Resign), TRUE, LongBody), TRUE, FALSE, Some(3))
\* Rated non-tournament loss as black on equal ratings, by resignation.
G_LossNTBail == Game(Subject, FALSE, Some(400), Some(400),
                     Pgn(Tags(R_WhiteWins, T_Resign), TRUE, ShortBody), TRUE, FALSE, Some(1))
\* Rated tournament loss as white against a weaker opponent, by mate.
G_LossT == Game(Subject, TRUE, Some(800), Some(400),
                Pgn(Tags(R_BlackWins, T_Mate), TRUE, LongBody), TRUE, TRUE, Some(3))
\* Rated non-tournament draw on equal ratings.
G_DrawNT == Game(Subject, TRUE, Some(400), Some(400),
                 Pgn(Tags(R_Draw, T_Mate), TRUE, LongBody), TRUE, FALSE, Some(2))
\* Rated game whose Result tag is "*".
G_Star == Game(Subject, TRUE, Some(400), Some(400),
               Pgn(Tags(R_Star, T_Mate), TRUE, ShortBody), TRUE, FALSE, Some(2))
\* Rated tournament game without a pgn.
G_NoPgn == Game(Subject, FALSE, Some(400), Some(400), NoPgn, TRUE, TRUE, None)
\* Unrated win.
G_Unrated == Game(Subject, TRUE, Some(400), Some(800),
                  Pgn(Tags(R_WhiteWins, T_Mate), TRUE, ShortBody), FALSE, FALSE, Some(3))
\* A game of another time class.
G_Blitz == [Game(Subject, TRUE, Some(400), Some(800),
                 Pgn(Tags(R_WhiteWins, T_Mate), TRUE, ShortBody), TRUE, TRUE, Some(3))
            EXCEPT !.time_class = "blitz"]
\* Rated tournament win with own rating 0.
G_WinZero == Game(Subject, TRUE, Some(0), Some(400),
                  Pgn(Tags(R_WhiteWins, T_Mate), TRUE, ShortBody), TRUE, TRUE, Some(1))
\* Rated win without ratings, without move text, without end time, on time.
G_WinBare == Game(Subject, FALSE, None, None,
                  Pgn(Tags(R_BlackWins, T_Timeout), FALSE, <<>>), TRUE, FALSE, None)
\* Rated tournament win against a stronger opponent who abandoned.
G_WinTBail == Game(Subject, TRUE, Some(400), Some(800),
                   Pgn(Tags(R_WhiteWins, T_Abandon), TRUE, <<>>), TRUE, TRUE, Some(1))
\* Rated tournament loss on time, equal ratings.
G_LossTBail == Game(Subject, TRUE, Some(400), Some(400),
                    Pgn(Tags(R_BlackWins, T_Timeout), TRUE, ShortBody), TRUE, TRUE, Some(2))
\* A game between two other players, black won.
G_Stranger == Game(<<"y">>, TRUE, Some(800), Some(400),
                   Pgn(Tags(R_BlackWins, T_Mate), TRUE, ShortBody), TRUE, FALSE, Some(2))
\* Rated tournament draw against a stronger opponent.
G_DrawT == Game(Subject, FALSE, Some(400), Some(800),
                Pgn(Tags(R_Draw, T_Mate), TRUE, LongBody), TRUE, TRUE, Some(1))
\* Rated non-tournament loss by mate, equal ratings.
G_LossNT == Game(Subject, TRUE, Some(400), Some(400),
                 Pgn(Tags(R_BlackWins, T_Mate), TRUE, LongBody), TRUE, FALSE, Some(1))
\* Rated win whose first Result tag is empty and whose tags lack Termination.
G_WinRetag == Game(Subject, TRUE, Some(800), Some(400),
                   Pgn(<< <<K_Result, <<>> >>, <<K_Result, R_WhiteWins>> >>, TRUE, ShortBody),
                   TRUE, FALSE, Some(3))

\* A month listing holding n copies of game g.
Run(g, n) == [i \in 1..n |-> g]

\* The month listings a platform with long histories can serve.
WideListings ==
  {Run(g, n) : g \in {G_WinT, G_LossNTBail}, n \in {1, 3, 10}}
  \cup {Run(G_WinNT, n) : n \in {1, 2, 10}}
  \cup {Run(G_LossT, n) : n \in {1, 3}}
  \cup {Run(g, 1) : g \in {G_DrawNT, G_Star, G_NoPgn, G_Unrated, G_Blitz, G_WinZero,
                           G_WinBare, G_WinTBail, G_LossTBail, G_Stranger, G_DrawT,
                           G_LossNT, G_WinRetag}}

\* The month listings of a platform with short histories.
SmallListings == {Run(G_WinT, 3), Run(G_LossNTBail, 3), Run(G_DrawNT, 1)}

(* ------------------------------- URLs --------------------------------- *)

\* A URL is the sequence of the segments between its slashes, from the
\* path on; a trailing slash shows as a trailing empty segment.
IndexUrl(u) == <<"pub", "player", u, "games", "archives">>

MonthNames == <<"01", "02", "03", "04", "05", "06", "07", "08", "09", "10", "11", "12">>

\* The month URLs the platform lists for user u, by kind: the month of
\* `date` ("cur"), the month before with a trailing slash ("prev/"), the
\* month two before ("prev2"), and the same month a year earlier ("old").
PrevMonth(date) == IF date[2] = 1 THEN <<date[1] - 1, 12>> ELSE <<date[1], date[2] - 1>>

MonthUrl(u, date) == <<"pub", "player", u, "games", ToString(date[1]), MonthNames[date[2]]>>

ArchiveUrl(kind, u, date) ==
  CASE kind = "cur" -> MonthUrl(u, date)
    [] kind = "prev/" -> MonthUrl(u, PrevMonth(date)) \o <<"">>
    [] kind = "prev2" -> MonthUrl(u, PrevMonth(PrevMonth(date)))
    [] kind = "old" -> MonthUrl(u, <<date[1] - 1, date[2]>>)

\* Sequences over S of length at most n
SeqsUpTo(S, n) == UNION {[1..k -> S] : k \in 0..n}

\* The shapes of archive index the platform can return: it lists a month
\* once.
WideIndexes ==
  {s \in SeqsUpTo({"cur", "prev/", "old"}, MaxArchives) :
     \A i, j \in 1..Len(s) : s[i] = s[j] => i = j}
SmallIndexes == {<<"cur">>, <<"old", "prev2">>}

\* A JSON payload: the "archives" and "games" entries, each present or not.
Payload(archives, games) == [archives |-> archives, games |-> games]
EmptyPayload == Payload(None, None)

(* ------------------------------- state -------------------------------- *)

VARIABLES
  scanner,     \* the SusScanner instance's thresholds (self)
  today,       \* dt.date.today() as <<year, month>>
  remote,      \* what the platform can answer: [indexes, listings]
  pc,          \* analyze_user: "idle", "index", "loop", "month", "fetched", "returned", "raised"
  username,    \* analyze_user's argument
  archives,    \* _fetch_daily_games: the archive index
  ai,          \* _fetch_daily_games: position in the archive index
  games,       \* _fetch_daily_games: out; analyze_user: games
  m,           \* analyze_user's result, None until it returns
  gj,          \* the running _get_json call
  usernames,   \* analyze_usernames: its argument
  bi,          \* analyze_usernames: position in usernames
  out,         \* analyze_usernames: out
  warned,      \* analyze_usernames: the usernames of the printed warnings
  bpc,         \* analyze_usernames: "off", "loop", "done"
  req,         \* scan: the request's username
  spc,         \* scan: "off", "received", "call", "wait", "done"
  loaded,      \* api/main.py: _loaded
  http         \* scan: the response status, None while the request runs

vars == <<scanner, today, remote, pc, username, archives, ai, games, m, gj,
          usernames, bi, out, warned, bpc, req, spc, loaded, http>>

envVars == <<scanner, today, remote>>
userVars == <<pc, username, archives, ai, games, m>>
batchVars == <<usernames, bi, out, warned, bpc>>
scanVars == <<req, spc, loaded, http>>

(* ------------------------------ _get_json ----------------------------- *)

\* retries: int = 3
Retries == 3
\* backoff: float = 0.8, in tenths of a second
Backoff == 8

\* Response statuses other than 200 and 404 that the platform gives.
OtherStatuses == {429, 503}

IdleGJ == [state |-> "idle", url |-> <<>>, i |-> 0, requests |-> 0, sleeps |-> <<>>,
           last |-> 0, result |-> None]

\* Entering _get_json(url): the loop variable i is at its first value.
CallGJ(url) == [IdleGJ EXCEPT !.state = "running", !.url = url]

IsIndexUrl(url) == url[Len(url)] = "archives"

\* The JSON bodies the platform can give for url with status 200.
Bodies(url) ==
  IF IsIndexUrl(url)
  THEN {EmptyPayload}
       \cup {Payload(Some([k \in 1..Len(shape) |-> ArchiveUrl(shape[k], url[3], today)]), None) :
               shape \in remote.indexes}
  ELSE {EmptyPayload} \cup {Payload(None, Some(l)) : l \in remote.listings}

\* session.get answers 200: return r.json()
GetJsonOk ==
  /\ gj.state = "running"
  /\ \E body \in Bodies(gj.url) :
       gj' = [gj EXCEPT !.state = "returned", !.requests = @ + 1, !.last = 200,
                        !.result = Some(body)]
  /\ UNCHANGED <<envVars, userVars, batchVars, scanVars>>

\* session.get answers 404: return None
GetJsonNotFound ==
  /\ gj.state = "running"
  /\ gj' = [gj EXCEPT !.state = "returned", !.requests = @ + 1, !.last = 404,
                      !.result = None]
  /\ UNCHANGED <<envVars, userVars, batchVars, scanVars>>

\* a retry step that waits backoff, not backoff * (i + 1)
RetryStepFlatWait(g, status) ==
  [g EXCEPT !.requests = @ + 1,
            !.last = status,
            !.sleeps = Append(@, Backoff),
            !.i = @ + 1,
            !.state = IF g.i + 1 < 3 THEN "running" ELSE "returned",
            !.result = None]

\* The step of the retry loop after a response that is neither 200 nor 404:
\* sleep backoff * (i + 1), then the next attempt, or return None when the
\* range is exhausted.
RetryStep(g, status) ==
  [g EXCEPT !.requests = @ + 1,
            !.last = status,
            !.sleeps = Append(@, Backoff * (g.i + 1)),
            !.i = @ + 1,
            !.state = IF g.i + 1 < Retries THEN "running" ELSE "returned",
            !.result = None]

\* session.get answers another status
GetJsonRetry ==
  /\ gj.state = "running"
  /\ \E status \in OtherStatuses : gj' = RetryStep(gj, status)
  /\ UNCHANGED <<envVars, userVars, batchVars, scanVars>>

\* What _get_json does when session.get raises (connection error, timeout):
\* nothing catches it, the exception leaves _get_json.
OnFault(g) == [g EXCEPT !.state = "raised", !.requests = @ + 1, !.last = 0]

\* session.get raises
GetJsonFault ==
  /\ gj.state = "running"
  /\ gj' = OnFault(gj)
  /\ UNCHANGED <<envVars, userVars, batchVars, scanVars>>

(* ------------------- analyze_user, _fetch_daily_games ----------------- *)

\* f"{cur.month:02d}"
Pad2(n) == IF n < 10 THEN "0" \o ToString(n) ELSE ToString(n)

\* f"{cur.year}-{cur.month:02d}"
YmKey(date) == ToString(date[1]) \o "-" \o Pad2(date[2])

\* a step back that stays in the same year
StepBackSameYear(cur) == IF cur[2] = 1 THEN <<cur[1], 12>> ELSE <<cur[1], cur[2] - 1>>

\* cur = (cur - dt.timedelta(days=1)).replace(day=1), on <<year, month>>
StepBack(cur) == IF cur[2] = 1 THEN <<cur[1] - 1, 12>> ELSE <<cur[1], cur[2] - 1>>

\* ym_to_include after the loop has run `n` times from `cur`
RECURSIVE YmToInclude(_, _)
YmToInclude(cur, n) ==
  IF n <= 0 THEN {} ELSE {YmKey(cur)} \cup YmToInclude(StepBack(cur), n - 1)

\* url.rstrip("/").split("/")
RECURSIVE UrlParts(_)
UrlParts(url) ==
  IF url # <<>> /\ url[Len(url)] = "" THEN UrlParts(SubSeq(url, 1, Len(url) - 1)) ELSE url

\* Whether the loop over archives fetches url
Included(url, date, lookback_months) ==
  LET parts == UrlParts(url)
  IN  /\ Len(parts) >= 2
      /\ (parts[Len(parts) - 1] \o "-" \o parts[Len(parts)]) \in YmToInclude(date, lookback_months)

\* Entering analyze_user(u): m = UserMetrics(username) is built once the
\* fetch has returned; the fetch starts with _get_archives.
CallAnalyzeUser(u) ==
  /\ pc' = "index"
  /\ username' = u
  /\ archives' = <<>>
  /\ ai' = 0
  /\ games' = <<>>
  /\ m' = None
  /\ gj' = CallGJ(IndexUrl(u))

\* a _get_archives that falls back on the current month's archive when the
\* index gave no list
_get_archivesOrThisMonth(data) ==
  IF IsNone(data) \/ Val(data) = EmptyPayload \/ IsNone(Val(data).archives)
  THEN <<MonthUrl(username, today)>>
  ELSE Val(Val(data).archives)

\* _get_archives(username) from the value _get_json returned
_get_archives(data) ==
  IF IsNone(data) \/ Val(data) = EmptyPayload \/ IsNone(Val(data).archives) THEN <<>>
  ELSE Val(Val(data).archives)

\* _get_archives returns; "if not archives: return []"
GetArchivesReturn ==
  /\ pc = "index" /\ gj.state = "returned"
  /\ LET a == _get_archives(gj.result)
     IN  IF a = <<>>
         THEN pc' = "fetched" /\ archives' = <<>> /\ ai' = 0
         ELSE pc' = "loop" /\ archives' = a /\ ai' = 1
  /\ gj' = IdleGJ
  /\ UNCHANGED <<username, games, m, envVars, batchVars, scanVars>>

\* One pass of "for url in archives" up to the call of _get_json(url), or
\* the end of the loop ("return out").
FetchNext ==
  /\ pc = "loop"
  /\ IF ai > Len(archives)
     THEN pc' = "fetched" /\ archives' = <<>> /\ ai' = 0 /\ gj' = gj
     ELSE IF ~Included(archives[ai], today, scanner.lookback_months)
     THEN pc' = "loop" /\ ai' = ai + 1 /\ archives' = archives /\ gj' = gj
     ELSE pc' = "month" /\ gj' = CallGJ(archives[ai]) /\ UNCHANGED <<archives, ai>>
  /\ UNCHANGED <<username, games, m, envVars, batchVars, scanVars>>

\* The games one month's data adds to out
MonthGames(data, u) ==
  IF IsNone(data) \/ Val(data) = EmptyPayload \/ IsNone(Val(data).games) THEN <<>>
  ELSE SummarizeAll(Val(Val(data).games), u)

\* _get_json(url) returns inside the loop
MonthReturn ==
  /\ pc = "month" /\ gj.state = "returned"
  /\ games' = games \o MonthGames(gj.result, username)
  /\ ai' = ai + 1
  /\ pc' = "loop"
  /\ gj' = IdleGJ
  /\ UNCHANGED <<username, archives, m, envVars, batchVars, scanVars>>

\* The rest of analyze_user once the fetch has returned
AnalyzeUser ==
  /\ pc = "fetched"
  /\ m' = Some(MetricsOf(scanner, username, games))
  /\ pc' = "returned"
  /\ UNCHANGED <<username, archives, ai, games, gj, envVars, batchVars, scanVars>>

\* An exception of _get_json leaves _get_archives, _fetch_daily_games and
\* analyze_user, none of which catches it.
Propagate ==
  /\ pc \in {"index", "month"} /\ gj.state = "raised"
  /\ pc' = "raised"
  /\ archives' = <<>> /\ ai' = 0 /\ games' = <<>>
  /\ gj' = IdleGJ
  /\ UNCHANGED <<username, m, envVars, batchVars, scanVars>>

PipelineNext ==
  \/ GetJsonOk
  \/ GetJsonNotFound
  \/ GetJsonRetry
  \/ GetJsonFault
  \/ GetArchivesReturn
  \/ FetchNext
  \/ MonthReturn
  \/ AnalyzeUser
  \/ Propagate

(* -------------------------- analyze_usernames ------------------------- *)

\* Most usernames in one batch.
MaxBatch == 3

\* an insertion that puts x ahead of the entries of equal score
RECURSIVE InsertDescUnstable(_, _)
InsertDescUnstable(sorted, x) ==
  IF sorted = <<>> THEN <<x>>
  ELSE IF Head(sorted).suspicion_score > x.suspicion_score
  THEN <<Head(sorted)>> \o InsertDescUnstable(Tail(sorted), x)
  ELSE <<x>> \o sorted

\* The place of x in a list kept in non-increasing score order, behind every
\* entry whose score is at least x's.
RECURSIVE InsertDesc(_, _)
InsertDesc(sorted, x) ==
  IF sorted = <<>> THEN <<x>>
  ELSE IF Head(sorted).suspicion_score >= x.suspicion_score
  THEN <<Head(sorted)>> \o InsertDesc(Tail(sorted), x)
  ELSE <<x>> \o sorted

RECURSIVE SortFrom(_, _)
SortFrom(rest, sorted) ==
  IF rest = <<>> THEN sorted ELSE SortFrom(Tail(rest), InsertDesc(sorted, Head(rest)))

\* out.sort(key=lambda m: m.suspicion_score, reverse=True): stable
SortByScoreDesc(list) == SortFrom(list, <<>>)

\* "for u in usernames: try: ... self.analyze_user(u)"
BatchCall ==
  /\ bpc = "loop" /\ pc = "idle" /\ bi <= Len(usernames)
  /\ CallAnalyzeUser(usernames[bi])
  /\ UNCHANGED <<envVars, batchVars, scanVars>>

\* analyze_user returned: out.append(...)
BatchCollect ==
  /\ bpc = "loop" /\ pc = "returned"
  /\ out' = Append(out, Val(m))
  /\ bi' = bi + 1
  /\ pc' = "idle" /\ m' = None /\ games' = <<>>
  /\ UNCHANGED <<username, archives, ai, gj, usernames, warned, bpc, envVars, scanVars>>

\* analyze_user raised: "except Exception as e: print(...)"
BatchWarn ==
  /\ bpc = "loop" /\ pc = "raised"
  /\ warned' = Append(warned, username)
  /\ bi' = bi + 1
  /\ pc' = "idle"
  /\ UNCHANGED <<username, archives, ai, games, m, gj, usernames, out, bpc, envVars, scanVars>>

\* The loop is over: sort and return
BatchReturn ==
  /\ bpc = "loop" /\ pc = "idle" /\ bi > Len(usernames)
  /\ out' = SortByScoreDesc(out)
  /\ bpc' = "done"
  /\ UNCHANGED <<userVars, gj, usernames, bi, warned, envVars, scanVars>>

(* -------------------------------- scan -------------------------------- *)

\* Longest username of a request.
MaxNameLen == 2

Requests == SeqsUpTo({" ", "\t", "B"}, MaxNameLen)

\* username = (req.username or "").strip(); "if not username: raise HTTPException(400, ...)"
ScanReject ==
  /\ spc = "received" /\ Strip(req) = <<>>
  /\ http' = Some(400)
  /\ spc' = "done"
  /\ UNCHANGED <<req, loaded, userVars, gj, envVars, batchVars>>

\* _load_scanner_once() for a valid username: a no-op once loaded, else the
\* import, which may raise (HTTPException 500).
ScanLoad ==
  /\ spc = "received" /\ Strip(req) # <<>>
  /\ \/ /\ loaded
        /\ spc' = "call" /\ UNCHANGED <<loaded, http>>
     \/ /\ ~loaded
        /\ loaded' = TRUE /\ spc' = "call" /\ UNCHANGED http
     \/ /\ ~loaded
        /\ http' = Some(500) /\ spc' = "done" /\ UNCHANGED loaded
  /\ UNCHANGED <<req, userVars, gj, envVars, batchVars>>

\* metrics = _analyze_fn(username): the module-level analyze_user builds a
\* scanner and calls its analyze_user.
ScanCall ==
  /\ spc = "call"
  /\ scanner' = ModuleScanner
  /\ CallAnalyzeUser(Strip(req))
  /\ spc' = "wait"
  /\ UNCHANGED <<today, remote, req, loaded, http, batchVars>>

\* The analyze function returned (200 with the metrics) or raised (500).
ScanRespond ==
  /\ spc = "wait" /\ pc \in {"returned", "raised"}
  /\ http' = Some(IF pc = "returned" THEN 200 ELSE 500)
  /\ spc' = "done"
  /\ UNCHANGED <<req, loaded, userVars, gj, envVars, batchVars>>

\* The next request arrives.
ScanReceive ==
  /\ spc = "done"
  /\ \E r \in Requests : req' = r
  /\ spc' = "received"
  /\ http' = None
  /\ pc' = "idle" /\ m' = None /\ games' = <<>>
  /\ UNCHANGED <<username, archives, ai, gj, loaded, envVars, batchVars>>

(* --------------------------- specifications --------------------------- *)

WideRemote == [indexes |-> WideIndexes, listings |-> WideListings]
SmallRemote == [indexes |-> SmallIndexes, listings |-> SmallListings]

InitFrames ==
  /\ pc = "idle" /\ archives = <<>> /\ ai = 0 /\ games = <<>> /\ m = None
  /\ gj = IdleGJ
  /\ today = <<2024, 1>>

\* A direct call of SusScanner.analyze_user
UserStart ==
  /\ pc = "idle" /\ bpc = "off" /\ spc = "off"
  /\ CallAnalyzeUser(username)
  /\ UNCHANGED <<envVars, batchVars, scanVars>>

Init ==
  /\ InitFrames
  /\ scanner \in {DefaultScanner, SmallScanner}
  /\ remote = WideRemote
  /\ username = Subject
  /\ usernames = <<>> /\ bi = 0 /\ out = <<>> /\ warned = <<>> /\ bpc = "off"
  /\ req = <<>> /\ spc = "off" /\ loaded = FALSE /\ http = None

Next == UserStart \/ PipelineNext

Spec == Init /\ [][Next]_vars

\* A call of SusScanner.analyze_usernames
InitBatch ==
  /\ InitFrames
  /\ scanner = SmallScanner
  /\ remote = SmallRemote
  /\ username = <<>>
  /\ usernames \in SeqsUpTo({Subject, <<"a">>}, MaxBatch)
  /\ bi = 1 /\ out = <<>> /\ warned = <<>> /\ bpc = "loop"
  /\ req = <<>> /\ spc = "off" /\ loaded = FALSE /\ http = None

NextBatch == BatchCall \/ BatchCollect \/ BatchWarn \/ BatchReturn \/ PipelineNext

SpecBatch == InitBatch /\ [][NextBatch]_vars

\* The HTTP wrapper serving scan requests one after the other
InitScan ==
  /\ InitFrames
  /\ scanner = ModuleScanner
  /\ remote = SmallRemote
  /\ username = <<>>
  /\ usernames = <<>> /\ bi = 0 /\ out = <<>> /\ warned = <<>> /\ bpc = "off"
  /\ req \in Requests /\ spc = "received" /\ loaded = FALSE /\ http = None

NextScan == ScanReject \/ ScanLoad \/ ScanCall \/ ScanRespond \/ ScanReceive \/ PipelineNext

SpecScan == InitScan /\ [][NextScan]_vars

\* One call of _get_json, with the fairness that the request timeout and
\* the finite sleeps give: an attempt that can be made is made.
InitGetJson ==
  /\ scanner = DefaultScanner
  /\ today = <<2024, 1>>
  /\ remote \in {WideRemote, SmallRemote}
  /\ username = Subject
  /\ \E kind \in {"index", "cur", "prev/"} :
       /\ pc = (IF kind = "index" THEN "index" ELSE "month")
       /\ gj = CallGJ(IF kind = "index" THEN IndexUrl(Subject)
                      ELSE ArchiveUrl(kind, Subject, today))
       /\ archives = (IF kind = "index" THEN <<>> ELSE <<ArchiveUrl(kind, Subject, today)>>)
       /\ ai = (IF kind = "index" THEN 0 ELSE 1)
  /\ games = <<>> /\ m = None
  /\ usernames = <<>> /\ bi = 0 /\ out = <<>> /\ warned = <<>> /\ bpc = "off"
  /\ req = <<>> /\ spc = "off" /\ loaded = FALSE /\ http = None

NextGetJson == GetJsonOk \/ GetJsonNotFound \/ GetJsonRetry \/ GetJsonFault

SpecGetJson == InitGetJson /\ [][NextGetJson]_vars /\ WF_vars(NextGetJson)

(* ------------------ the month window of one fetch --------------------- *)

MaxLookback == 14

\* Calendar months counted from year 0: the k-th month before a date.
MonthIndex(date) == date[1] * 12 + (date[2] - 1)
MonthAt(idx) == <<idx \div 12, (idx % 12) + 1>>
MonthsBefore(date, k) == MonthAt(MonthIndex(date) - k)

\* The archive URLs a platform can list around `date`: the months 0 to
\* MaxLookback back, one of them also with a trailing slash, the current
\* month written without its leading zero, and a URL of a single segment.
ArchiveUrlsAround(u, date) ==
  {MonthUrl(u, MonthsBefore(date, k)) : k \in 0..MaxLookback}
  \cup {MonthUrl(u, MonthsBefore(date, 1)) \o <<"", "">>}
  \cup {<<"pub", "player", u, "games", ToString(date[1]), ToString(date[2])>>}
  \cup {<<"archives.json">>}

\* _fetch_daily_games at "for url in archives", on any day of 2024, for
\* any lookback_months from 1 to MaxLookback.
InitMonths ==
  /\ today \in {<<2024, mo>> : mo \in 1..12}
  /\ \E n \in 1..MaxLookback : scanner = [DefaultScanner EXCEPT !.lookback_months = n]
  /\ remote = SmallRemote
  /\ username = Subject
  /\ pc = "loop" /\ ai = 1
  /\ \E url \in ArchiveUrlsAround(Subject, today) : archives = <<url>>
  /\ games = <<>> /\ m = None /\ gj = IdleGJ
  /\ usernames = <<>> /\ bi = 0 /\ out = <<>> /\ warned = <<>> /\ bpc = "off"
  /\ req = <<>> /\ spc = "off" /\ loaded = FALSE /\ http = None

NextMonths ==
  \/ FetchNext
  \/ GetJsonOk
  \/ GetJsonNotFound
  \/ GetJsonRetry
  \/ GetJsonFault
  \/ MonthReturn
  \/ AnalyzeUser

SpecMonths == InitMonths /\ [][NextMonths]_vars

(* ------------------- the streak function on its own ------------------- *)

\* Longest history given to the streak walk.
MaxStreakLen == 7

\* A raw game of the subject with outcome o ("W", "L", "D") and end time t.
StreakGame(o, t, rated) ==
  Game(Subject, TRUE, Some(400), Some(400),
       Pgn(Tags(IF o = "W" THEN R_WhiteWins ELSE IF o = "L" THEN R_BlackWins ELSE R_Draw,
                T_Mate), TRUE, ShortBody),
       rated, FALSE, t)

\* A listing whose games, taken by end time, have the outcomes chron: in
\* list order ("asc"), in reverse list order ("desc"), all at one end time
\* ("ties"), or in list order followed by a win without end time ("untimed").
\* Every second game is unrated.
StreakListing(chron, layout) ==
  LET n == Len(chron)
  IN  CASE layout = "asc" -> [i \in 1..n |-> StreakGame(chron[i], Some(i), i % 2 = 0)]
        [] layout = "desc" ->
             [i \in 1..n |-> StreakGame(chron[n + 1 - i], Some(n + 1 - i), i % 2 = 0)]
        [] layout = "ties" -> [i \in 1..n |-> StreakGame(chron[i], Some(5), i % 2 = 0)]
        [] layout = "untimed" ->
             [i \in 1..n |-> StreakGame(chron[i], Some(i), i % 2 = 0)]
             \o <<StreakGame("W", None, TRUE)>>

\* analyze_user at the point where the fetch has returned a history
InitStreak ==
  /\ scanner = DefaultScanner
  /\ today = <<2024, 1>>
  /\ remote = SmallRemote
  /\ username = Subject
  /\ pc = "fetched" /\ archives = <<>> /\ ai = 0 /\ m = None /\ gj = IdleGJ
  /\ \E chron \in SeqsUpTo({"W", "L", "D"}, MaxStreakLen) :
       \E layout \in {"asc", "desc", "ties", "untimed"} :
          games = SummarizeAll(StreakListing(chron, layout), Subject)
  /\ usernames = <<>> /\ bi = 0 /\ out = <<>> /\ warned = <<>> /\ bpc = "off"
  /\ req = <<>> /\ spc = "off" /\ loaded = FALSE /\ http = None

NextStreak == AnalyzeUser

SpecStreak == InitStreak /\ [][NextStreak]_vars

(* ------------------- the aggregation on mixed histories --------------- *)

MaxCopies == 2
MaxBailLosses == 7
MaxOtherLosses == 3

\* Scanners built with other arguments: an upset margin equal to the
\* rating difference of the games, and a short-game threshold as large as
\* the value the code puts in place of an unknown ply count.
MarginScanner == [DefaultScanner EXCEPT !.rating_upset_margin = 400]
LongGameScanner == [DefaultScanner EXCEPT !.short_game_plies = 1000000000]

\* The runs of runs[k][2] copies of game runs[k][1], one after the other.
RECURSIVE Runs(_)
Runs(runs) ==
  IF runs = <<>> THEN <<>> ELSE Run(Head(runs)[1], Head(runs)[2]) \o Runs(Tail(runs))

\* Histories mixing wins of every kind: in and out of tournaments, rated
\* and not, with and without ratings and move text, bail finishes or not.
WinKinds == <<G_WinT, G_WinTBail, G_WinZero, G_WinBare, G_Unrated, G_WinNT>>
WinHistories ==
  {Runs([k \in 1..Len(WinKinds) |-> <<WinKinds[k], c[k]>>]) :
     c \in [1..Len(WinKinds) -> 0..MaxCopies]}

\* Histories of losses: bail and other finishes, out of and in tournaments.
LossHistories ==
  {Runs(<< <<G_LossNTBail, a>>, <<G_LossNT, b>>, <<G_LossTBail, c>>, <<G_LossT, d>> >>) :
     a \in 0..MaxBailLosses, b \in 0..MaxOtherLosses,
     c \in 0..MaxOtherLosses, d \in 0..MaxOtherLosses}

\* analyze_user once _fetch_daily_games has returned such a history
InitAnalyze ==
  /\ today = <<2024, 1>>
  /\ scanner \in {DefaultScanner, SmallScanner, MarginScanner, LongGameScanner}
  /\ remote = SmallRemote
  /\ username = Subject
  /\ pc = "fetched" /\ archives = <<>> /\ ai = 0 /\ m = None /\ gj = IdleGJ
  /\ \E listing \in WinHistories \cup LossHistories : games = SummarizeAll(listing, Subject)
  /\ usernames = <<>> /\ bi = 0 /\ out = <<>> /\ warned = <<>> /\ bpc = "off"
  /\ req = <<>> /\ spc = "off" /\ loaded = FALSE /\ http = None

NextAnalyze == AnalyzeUser

SpecAnalyze == InitAnalyze /\ [][NextAnalyze]_vars

(* ------------------------------ claims -------------------------------- *)

Returned == pc = "returned"
M == Val(m)

\* C1 (as claimed): every returned UserMetrics has
\* lifetime_wins + lifetime_draws + lifetime_losses = lifetime_games, also
\* when a rated game's Result is missing or not one of the three results.
C1_TallyAddsUp ==
  Returned => M.lifetime_wins + M.lifetime_draws + M.lifetime_losses = M.lifetime_games

UnitFrac(f) == f.d > 0 /\ 0 <= f.n /\ f.n <= f.d
UnitRatio(r) == r.d > 0 /\ 0 <= r.n /\ RatioLE(r, Frac(1, 1))

CountRatiosInUnit(mm) ==
  /\ UnitFrac(mm.short_win_rate)
  /\ UnitFrac(mm.timeout_win_ratio)
  /\ UnitFrac(mm.tourn_win_rate)
  /\ UnitFrac(mm.non_tourn_win_rate)
  /\ UnitFrac(mm.t_self_bail_loss_ratio)
  /\ UnitFrac(mm.nt_self_bail_loss_ratio)

\* C2 (as claimed): every ratio field of a returned UserMetrics, the three
\* Elo gain/loss ratios included, lies in [0,1].
C2_AllRatiosInUnit ==
  Returned =>
    /\ CountRatiosInUnit(M)
    /\ UnitRatio(M.elo_ratio)
    /\ UnitRatio(M.tourn_elo_ratio)
    /\ UnitRatio(M.non_tourn_elo_ratio)

\* C2 (amended): the six count ratios of a returned UserMetrics lie in
\* [0,1]; the three Elo gain/loss ratios are >= 0 and have no upper bound 1.
C2_CountRatiosInUnit ==
  Returned =>
    /\ CountRatiosInUnit(M)
    /\ \A r \in {M.elo_ratio, M.tourn_elo_ratio, M.non_tourn_elo_ratio} :
         r.d > 0 /\ r.n >= 0 /\ r.scale > 0

\* A returned result with an Elo ratio above 1 and a short-win rate strictly
\* between 0 and 1.
C2_Witness ==
  /\ Returned
  /\ ~RatioLE(M.elo_ratio, Frac(1, 1))
  /\ 0 < M.short_win_rate.n /\ M.short_win_rate.n < M.short_win_rate.d

\* The six rule conditions read off a returned UserMetrics.
RuleFires(mm) ==
  << Rule1Holds(scanner, mm.lifetime_games, mm.elo_ratio),
     Rule2Holds(scanner, mm.tourn_games, mm.non_tourn_games, mm.elo_ratio_gap.a,
                mm.elo_ratio_gap.b),
     Rule3Holds(scanner, mm.non_tourn_losses, mm.tourn_losses,
                mm.nt_self_bail_loss_ratio, mm.t_self_bail_loss_ratio),
     Rule4Holds(scanner, mm.win_streak),
     Rule5Holds(mm.upset_wins),
     Rule6Holds(scanner, mm.short_win_rate, mm.lifetime_wins) >>

ReasonTexts == <<Reason1, Reason2, Reason3, Reason4, Reason5, Reason6>>

\* The reasons of the rules 1..k that fire, in rule order.
RECURSIVE ReasonsUpTo(_, _)
ReasonsUpTo(fires, k) ==
  IF k = 0 THEN <<>>
  ELSE ReasonsUpTo(fires, k - 1) \o (IF fires[k] THEN <<ReasonTexts[k]>> ELSE <<>>)

\* C3: the score of a returned UserMetrics is the sum of the points of
\* exactly the rules whose condition holds, each counted once (so it is
\* >= 0, and 0 iff there are no reasons), and reasons lists the triggered
\* rules in rule order.
C3_ScoreIsSumOfRules ==
  Returned =>
    LET fires == RuleFires(M)
    IN  /\ M.suspicion_score =
             SumSeq([k \in 1..6 |-> IF fires[k] THEN RulePoints[k] ELSE 0])
        /\ M.reasons = ReasonsUpTo(fires, 6)
        /\ M.suspicion_score >= 0
        /\ (M.suspicion_score = 0 <=> M.reasons = <<>>)

\* A returned result in which all six rules fired.
C3_Witness ==
  /\ Returned
  /\ M.reasons = ReasonTexts
  /\ M.suspicion_score = 840

\* C4 (as claimed): no failure of a fetch, a network fault included, makes
\* _get_json raise or analyze_user fail.
C4_FetchNeverRaises == gj.state # "raised" /\ pc # "raised"

\* C5: what one call of _get_json has done so far: at most Retries
\* requests; the k-th wait is Backoff * k; it is still running only after
\* responses that were all neither 200 nor 404, each followed by its wait;
\* a 200 or a 404 ended it at once, with no wait after it, returning the
\* payload or None; otherwise it returned None only after Retries requests.
C5_Shape ==
  /\ gj.requests <= Retries
  /\ \A k \in 1..Len(gj.sleeps) : gj.sleeps[k] = Backoff * k
  /\ gj.state = "running" =>
       /\ gj.requests < Retries
       /\ Len(gj.sleeps) = gj.requests
       /\ gj.requests > 0 => gj.last \notin {200, 404}
  /\ gj.state = "returned" /\ gj.last = 200 =>
       ~IsNone(gj.result) /\ Len(gj.sleeps) = gj.requests - 1
  /\ gj.state = "returned" /\ gj.last = 404 =>
       IsNone(gj.result) /\ Len(gj.sleeps) = gj.requests - 1
  /\ gj.state = "returned" /\ gj.last \notin {200, 404} =>
       IsNone(gj.result) /\ gj.requests = Retries /\ Len(gj.sleeps) = Retries

\* C5: one call of _get_json keeps that shape, makes no request once it has
\* stopped, and always stops.
C5_GetJsonBounded ==
  /\ []C5_Shape
  /\ [][gj.state # "running" => gj' = gj]_vars
  /\ <>(gj.state # "running")

\* A call that got its payload at the third request, after two waits.
C5_Witness ==
  /\ gj.state = "returned" /\ gj.last = 200
  /\ gj.requests = Retries
  /\ gj.sleeps = <<Backoff, 2 * Backoff>>

\* The usernames of a list of results
Names(list) == [i \in 1..Len(list) |-> list[i].username]

\* The entries of `names` at the positions where mask is b, in order.
RECURSIVE Pick(_, _, _)
Pick(names, mask, b) ==
  IF names = <<>> THEN <<>>
  ELSE (IF Head(mask) = b THEN <<Head(names)>> ELSE <<>>) \o Pick(Tail(names), Tail(mask), b)

\* `names` splits, position by position, into the usernames that returned
\* (in order) and the usernames that raised (in order).
SplitsInto(names, returned, raised) ==
  \E mask \in [1..Len(names) -> BOOLEAN] :
     Pick(names, mask, TRUE) = returned /\ Pick(names, mask, FALSE) = raised

\* `sorted` holds the entries of `list` in non-increasing score order, the
\* entries of equal score in their order in `list`.
StableDescOf(sorted, list) ==
  /\ Len(sorted) = Len(list)
  /\ \A i \in 1..(Len(sorted) - 1) : sorted[i].suspicion_score >= sorted[i + 1].suspicion_score
  /\ \A v \in {list[i].suspicion_score : i \in 1..Len(list)} :
       LET HasV(x) == x.suspicion_score = v
       IN  SelectSeq(sorted, HasV) = SelectSeq(list, HasV)

\* C6: while the batch loop runs, out holds one result for each username
\* handled so far whose analyze_user call returned, in input order, and a
\* warning was printed for each one whose call raised; the loop goes on to
\* the last username whatever raised; the returned list is out in
\* non-increasing score order, entries of equal score in input order.
C6_BatchIsolatesAndSorts ==
  /\ [](bpc = "loop" /\ pc = "idle" =>
          /\ bi <= Len(usernames) + 1
          /\ Len(out) + Len(warned) = bi - 1
          /\ SplitsInto(SubSeq(usernames, 1, bi - 1), Names(out), warned))
  /\ [](bpc = "done" =>
          /\ bi = Len(usernames) + 1
          /\ Len(out) + Len(warned) = Len(usernames))
  /\ [][bpc = "loop" /\ bi' # bi =>
          /\ bi' = bi + 1 /\ bpc' = "loop" /\ pc' = "idle"
          /\ IF pc = "returned"
             THEN out' = Append(out, M) /\ M.username = usernames[bi] /\ warned' = warned
             ELSE pc = "raised" /\ out' = out /\ warned' = Append(warned, usernames[bi])]_vars
  /\ [][bpc = "loop" /\ bpc' = "done" => StableDescOf(out', out)]_vars

\* A batch of three whose second username raised, returned with the
\* third username's result ahead of the first's.
C6_Witness ==
  /\ bpc = "done"
  /\ Len(usernames) = 3
  /\ warned = <<usernames[2]>>
  /\ Len(out) = 2
  /\ out[1].username = usernames[3] /\ out[2].username = usernames[1]
  /\ usernames[1] # usernames[3]
  /\ out[1].suspicion_score > out[2].suspicion_score

\* Every counter and ratio of a UserMetrics is zero, with no score and no
\* reasons.
AllZero(mm) ==
  /\ \A f \in {"lifetime_games", "lifetime_wins", "lifetime_draws", "lifetime_losses",
               "recent_games", "recent_wins", "recent_draws", "recent_losses",
               "win_streak", "max_win_streak", "upset_wins",
               "tourn_games", "tourn_wins", "tourn_draws", "tourn_losses",
               "non_tourn_games", "non_tourn_wins", "non_tourn_draws", "non_tourn_losses",
               "elo_gain", "elo_loss", "tourn_elo_gain", "tourn_elo_loss",
               "non_tourn_elo_gain", "non_tourn_elo_loss", "suspicion_score"} : mm[f] = 0
  /\ \A f \in {"short_win_rate", "timeout_win_ratio", "tourn_win_rate", "non_tourn_win_rate",
               "wr_gap", "t_self_bail_loss_ratio", "nt_self_bail_loss_ratio",
               "elo_ratio", "tourn_elo_ratio", "non_tourn_elo_ratio"} : mm[f].n = 0
  /\ mm.elo_ratio_gap.a.n = 0 /\ mm.elo_ratio_gap.b.n = 0
  /\ mm.reasons = <<>>

\* The value _get_json returned for the archive index holds no archive list.
NoArchiveList(data) ==
  \/ IsNone(data)
  \/ IsNone(Val(data).archives)
  \/ Val(Val(data).archives) = <<>>

\* C7: when the index fetch ends without an archive list (404, retries
\* exhausted, no or an empty list), the fetch is over at once with no games,
\* no month being requested; once the fetch is over analyze_user returns;
\* and a result for an empty game list carries the username and zeros only.
C7_EmptyHistoryGivesZeros ==
  /\ [][pc = "index" /\ gj.state = "returned" /\ NoArchiveList(gj.result) /\ pc' # pc
          => pc' = "fetched" /\ games' = <<>> /\ gj'.state = "idle"]_vars
  /\ [][pc = "fetched" /\ pc' # pc => pc' = "returned"]_vars
  /\ [](Returned /\ games = <<>> => M.username = username /\ AllZero(M))

\* A zero-valued result returned for an empty game list.
C7_Witness ==
  /\ Returned /\ games = <<>>
  /\ M.username = Subject /\ AllZero(M)

\* The timestamped games of a list in ascending end-time order (equal end
\* times in list order), as their is_win flags.
Chronological(list) ==
  LET timed == {i \in 1..Len(list) : ~IsNone(list[i].end_time)}
      t(i) == Val(list[i].end_time)
      Rank(i) == 1 + Cardinality({j \in timed : t(j) < t(i) \/ (t(j) = t(i) /\ j < i)})
  IN  [k \in 1..Cardinality(timed) |-> list[CHOOSE i \in timed : Rank(i) = k].is_win]

\* Number of wins at the end of c
TrailingWins(c) ==
  LET n == Len(c)
  IN  CHOOSE k \in 0..n : (\A j \in (n - k + 1)..n : c[j]) /\ (k < n => ~c[n - k])

HasRun(c, k) == k = 0 \/ \E a \in 1..(Len(c) - k + 1) : \A j \in a..(a + k - 1) : c[j]

\* Length of the longest run of consecutive wins in c
LongestRun(c) == CHOOSE k \in 0..Len(c) : HasRun(c, k) /\ ~HasRun(c, k + 1)

C9_BoundaryTriggersRule1 ==
  Returned =>
    LET InReasons(r) == \E i \in 1..Len(M.reasons) : M.reasons[i] = r
    IN  /\ (/\ M.lifetime_games >= scanner.min_games_for_elo
            /\ M.elo_ratio.scale = 1
            /\ M.elo_ratio.n * scanner.high_elo_ratio.d
                 = scanner.high_elo_ratio.n * M.elo_ratio.d)
           => InReasons(Reason1)
        /\ (\/ M.tourn_games < scanner.tourn_min_games
            \/ M.non_tourn_games < scanner.non_tourn_min_games)
           => ~InReasons(Reason2)

\* A result with the overall Elo ratio exactly at the threshold and no
\* tournament game: rule 1 alone fired.
C9_Witness ==
  /\ Returned
  /\ M.lifetime_games >= scanner.min_games_for_elo
  /\ M.elo_ratio.scale = 1 /\ M.elo_ratio.d > 0
  /\ M.elo_ratio.n * scanner.high_elo_ratio.d = scanner.high_elo_ratio.n * M.elo_ratio.d
  /\ M.tourn_games = 0
  /\ M.reasons = <<Reason1>>

\* The request's username is empty or whitespace only.
BlankRequest == \A i \in 1..Len(req) : req[i] \in {" ", "\t", "\n"}

\* C10: a scan request whose username is empty or whitespace only is
\* answered 400 in one step that neither loads the scanner module nor calls
\* an analyze function; while it is handled no analysis runs and no request
\* is sent to the platform.
C10_BlankUsernameRejectedFirst ==
  /\ [](spc # "off" /\ BlankRequest =>
          /\ spc \in {"received", "done"}
          /\ pc = "idle" /\ gj.state = "idle" /\ gj.requests = 0
          /\ (spc = "done" => http = Some(400)))
  /\ [][spc = "received" /\ BlankRequest /\ spc' # spc =>
          /\ spc' = "done" /\ http' = Some(400)
          /\ loaded' = loaded /\ pc' = "idle" /\ gj' = gj]_vars

\* A whitespace-only request answered 400 with the scanner module never
\* loaded.
C10_Witness ==
  /\ spc = "done" /\ req # <<>> /\ BlankRequest
  /\ http = Some(400) /\ ~loaded

\* The keys of the N calendar months ending with the month of `date`.
LastMonthsKeys(date, N) == {YmKey(MonthsBefore(date, k)) : k \in 0..(N - 1)}

\* The last two path segments of url, trailing slashes dropped, joined as
\* a year-month key, are among keys.
TrailingKeyIn(url, keys) ==
  LET n == CHOOSE k \in 0..Len(url) :
             (\A j \in (k + 1)..Len(url) : url[j] = "") /\ (k > 0 => url[k] # "")
  IN  n >= 2 /\ (url[n - 1] \o "-" \o url[n]) \in keys

\* C11: for every lookback length N >= 1 and current date, ym_to_include
\* holds exactly N keys, those of the current month and the N-1 months
\* before it (December of the year before following January); and the loop
\* over the archives requests a URL iff its trailing year/month segments
\* form one of these keys, no other request being made in the fetch.
C11_LookbackWindow ==
  /\ [](LET N == scanner.lookback_months
        IN  /\ Cardinality(YmToInclude(today, N)) = N
            /\ YmToInclude(today, N) = LastMonthsKeys(today, N))
  /\ [][pc = "loop" /\ ai <= Len(archives) =>
          LET url == archives[ai]
              asked == pc' = "month" /\ gj' = CallGJ(url)
              skipped == pc' = "loop" /\ ai' = ai + 1 /\ gj' = gj
          IN  IF TrailingKeyIn(url, LastMonthsKeys(today, scanner.lookback_months))
              THEN asked ELSE skipped]_vars
  /\ [][gj.state = "idle" /\ gj'.state = "running" => pc = "loop" /\ pc' = "month"]_vars

\* In January, with a lookback of at least two months, the archive of
\* December of the year before is being requested.
C11_Witness ==
  /\ pc = "month" /\ gj.state = "running"
  /\ today[2] = 1 /\ scanner.lookback_months >= 2
  /\ gj.url = MonthUrl(Subject, <<today[1] - 1, 12>>)

\* The positions of the rated games of the list `games`
RatedAt == {i \in 1..Len(games) : games[i].is_rated}

\* C12: tourn_games + non_tourn_games = lifetime_games in every returned
\* UserMetrics: each rated game is counted in exactly one of tourn_games
\* and non_tourn_games, by its tournament flag, and an unrated game in
\* neither.
C12_SplitCoversRated ==
  Returned =>
    /\ M.tourn_games + M.non_tourn_games = M.lifetime_games
    /\ M.tourn_games = Cardinality({i \in RatedAt : games[i].from_tournament})
    /\ M.non_tourn_games = Cardinality({i \in RatedAt : ~games[i].from_tournament})
    /\ M.lifetime_games = Cardinality(RatedAt)

\* A result over tournament, non-tournament and unrated games together.
C12_Witness ==
  /\ Returned
  /\ M.tourn_games > 0 /\ M.non_tourn_games > 0
  /\ M.lifetime_games < Len(games)

\* The positions of the rated wins of the list `games`
RatedWinAt == {i \in RatedAt : games[i].is_win}

\* C13 (as claimed): every parsed ply count is null or a positive even
\* number; and whatever short_game_plies is, short_win_rate is the number
\* of rated wins with a known ply count <= short_game_plies over the number
\* of all rated wins (over 1 when there is none): a rated win with a null
\* ply count is in the denominator and never in the numerator.
C13_UnknownPliesNeverShort ==
  /\ \A i \in 1..Len(games) :
       IsNone(games[i].plies) \/ (Val(games[i].plies) > 0 /\ Val(games[i].plies) % 2 = 0)
  /\ Returned =>
       LET short == {i \in RatedWinAt : /\ ~IsNone(games[i].plies)
                                        /\ Val(games[i].plies) <= scanner.short_game_plies}
           wins  == Cardinality(RatedWinAt)
       IN  M.short_win_rate.n * (IF wins > 0 THEN wins ELSE 1)
             = Cardinality(short) * M.short_win_rate.d

\* C14 (as claimed): upset_wins is the number of rated wins with both
\* ratings known (any value that is not null, 0 included), with
\* opp_rating - my_rating >= rating_upset_margin, and whose termination
\* reason is not a bail finish; a win at exactly the margin counts.
C14_UpsetWinsCounted ==
  Returned =>
    M.upset_wins =
      Cardinality({i \in RatedWinAt :
                     /\ ~IsNone(games[i].my_rating) /\ ~IsNone(games[i].opp_rating)
                     /\ Val(games[i].opp_rating) - Val(games[i].my_rating)
                          >= scanner.rating_upset_margin
                     /\ ~_is_bail(games[i].end_reason)})

\* The positions of the rated losses out of and in tournaments
NTLossAt == {i \in RatedAt : games[i].is_loss /\ ~games[i].from_tournament}
TLossAt == {i \in RatedAt : games[i].is_loss /\ games[i].from_tournament}

\* The number of bail finishes among the games at positions S, and whether
\* the fraction of bail finishes at S is at least f, minus the fraction at
\* T at least f (a fraction over no game being 0).
BailsAt(S) == Cardinality({i \in S : _is_bail(games[i].end_reason)})
BailFractionGE(S, f) == Cardinality(S) > 0 /\ BailsAt(S) * f.d >= f.n * Cardinality(S)
BailGapGE(S, T, f) ==
  LET a == IF Cardinality(S) > 0 THEN Frac(BailsAt(S), Cardinality(S)) ELSE Frac(0, 1)
      b == IF Cardinality(T) > 0 THEN Frac(BailsAt(T), Cardinality(T)) ELSE Frac(0, 1)
  IN  (a.n * b.d - b.n * a.d) * f.d >= f.n * (a.d * b.d)

\* The condition of rule 3 as the claim words it.
SandbaggingCondition ==
  /\ Cardinality(NTLossAt) >= scanner.min_nt_losses_for_flag
  /\ BailFractionGE(NTLossAt, scanner.high_bail_loss_ratio)
  /\ (BailGapGE(NTLossAt, TLossAt, scanner.gap_vs_tournament) \/ Cardinality(TLossAt) < 3)

\* C15 (as claimed): rule 3 fires, adding its reason, iff there are at
\* least min_nt_losses_for_flag rated non-tournament losses, the fraction
\* of them that are bail finishes is >= high_bail_loss_ratio, and that
\* fraction minus the tournament bail-loss fraction is >= gap_vs_tournament
\* or there are fewer than 3 rated tournament losses.
C15_SandbaggingRule ==
  Returned =>
    ((\E k \in 1..Len(M.reasons) : M.reasons[k] = Reason3) <=> SandbaggingCondition)

====
